---- MODULE Spec2Model ----
(***************************************************************************)
(* Dynamic Quote Generator (dom-manipulation/script.js): the in-memory     *)
(* quote collection, its localStorage persistence, the category filter,    *)
(* JSON import and the server sync with "server wins" conflict resolution. *)
(*                                                                         *)
(* Representation.  A JavaScript string is a sequence of tokens (a token   *)
(* is one character or one word); " " is the whitespace token and <<>> the *)
(* empty string.  A JavaScript object is a function from the property      *)
(* names it has to their values.  A JSON text is a tagged tree.            *)
(*                                                                         *)
(* One action is one task of the event loop: a handler from its start to   *)
(* its end, or an async function from one await to the next.  Left out, as *)
(* they touch none of the state below: exportToJsonFile, the request of    *)
(* postQuoteToServer, the fading of the notification, and the HTML markup  *)
(* and escaping of the displayed quote (the display is the quote picked).  *)
(***************************************************************************)
EXTENDS Integers, Sequences, FiniteSets, TLC

VARIABLES
    pc,            \* "boot" | "ready" | "crashed": script evaluation / page life
    quotes,        \* the `quotes` array (in memory)
    lsQuotes,      \* localStorage['quotes']: a JSON text, or absent
    lsSelected,    \* localStorage['selectedCategory']: a string, or absent
    storageFull,   \* localStorage.setItem throws (quota exhausted, storage disabled)
    lastShown,     \* sessionStorage['lastShownQuote']: a JSON text, or absent
    display,       \* what #quoteDisplay shows
    options,       \* the <option> values of #categoryFilter, in order
    selectValue,   \* #categoryFilter.value
    inflight,      \* number of syncQuotes calls suspended at `await fetch...`
    timerOn,       \* setInterval(syncQuotes, ...) has been installed
    lastOp,        \* the handler that ran last: its inputs, its outcome, the
                   \* quotes it pushed and the messages it put into
                   \* #notification, in order
    margs,         \* arguments of the last mergeServerLocal call
    mres           \* result of the last mergeServerLocal call

vars == <<pc, quotes, lsQuotes, lsSelected, storageFull, lastShown, display, options,
          selectValue, inflight, timerOn, lastOp, margs, mres>>

(***************************************************************************)
(* Bounds of the model.                                                    *)
(***************************************************************************)
MaxQuotes == 3      \* longest collection explored
MaxInflight == 2    \* most sync cycles in flight at once
MaxMergeLen == 2    \* longest argument of mergeServerLocal explored alone

(***************************************************************************)
(* Generic helpers.                                                        *)
(***************************************************************************)
Range(s) == {s[i] : i \in DOMAIN s}

SeqsUpTo(S, n) == UNION {[1..k -> S] : k \in 0..n}

\* Array.prototype.filter
Filter(s, Test(_)) == SelectSeq(s, Test)

\* Array.prototype.some
Some(s, Test(_)) == \E i \in DOMAIN s : Test(s[i])

(***************************************************************************)
(* Strings.                                                                *)
(***************************************************************************)
EmptyStr == <<>>
WS == " "
AllStr == <<"all">>
ServerStr == <<"Server">>

\* String.prototype.trim: drop leading and trailing whitespace
RECURSIVE TrimLeft(_)
TrimLeft(s) == IF s # <<>> /\ Head(s) = WS THEN TrimLeft(Tail(s)) ELSE s

RECURSIVE TrimRight(_)
TrimRight(s) ==
    IF s # <<>> /\ s[Len(s)] = WS THEN TrimRight(SubSeq(s, 1, Len(s) - 1)) ELSE s

trim(s) == TrimRight(TrimLeft(s))

\* JavaScript truthiness of a string: only '' is falsy
TruthyStr(s) == s # EmptyStr

(***************************************************************************)
(* Objects and JSON.                                                       *)
(***************************************************************************)
KeyOrder == <<"text", "category", "author">>

\* value of o.k, for a k the object has
HasProp(o, k) == k \in DOMAIN o

\* `o.k` is truthy: the property exists and is a non-empty string
TruthyProp(o, k) == HasProp(o, k) /\ TruthyStr(o[k])

Quote(t, c) == [text |-> t, category |-> c]

JsNull == [isNull |-> TRUE]

\* JSON texts
Absent == [kind |-> "absent"]              \* getItem() returned null
NotJson == [kind |-> "garbage"]            \* a text JSON.parse rejects
JsonNull == [kind |-> "null"]
JsonObject(pairs) == [kind |-> "object", pairs |-> pairs]
JsonArray(items) == [kind |-> "array", items |-> items]

\* JSON.stringify of one object: its properties as name/value pairs
StringifyObject(o) ==
    JsonObject(Filter(
        [i \in DOMAIN KeyOrder |-> <<KeyOrder[i], IF HasProp(o, KeyOrder[i]) THEN o[KeyOrder[i]] ELSE EmptyStr>>],
        LAMBDA p : HasProp(o, p[1])))

StringifyValue(v) == IF v = JsNull THEN JsonNull ELSE StringifyObject(v)

\* JSON.stringify of an array of objects
StringifyArray(arr) == JsonArray([i \in DOMAIN arr |-> StringifyValue(arr[i])])

\* JSON.parse of one element of a JSON array
ParseValue(j) ==
    IF j.kind = "null" THEN JsNull
    ELSE [k \in {j.pairs[i][1] : i \in DOMAIN j.pairs} |->
            LET i == CHOOSE i \in DOMAIN j.pairs : j.pairs[i][1] = k IN j.pairs[i][2]]

\* JSON.parse throws on this text
ParseThrows(j) == j.kind = "garbage"

\* Array.isArray(JSON.parse(j))
ParsesToArray(j) == j.kind = "array"

\* JSON.parse(j) for a text that holds an array
ParseArray(j) == [i \in DOMAIN j.items |-> ParseValue(j.items[i])]

(***************************************************************************)
(* mergeServerLocal: server quotes first, then the local quotes whose text *)
(* the server did not send; conflicts are the local quotes it did send.    *)
(***************************************************************************)
\* serverQuotes.forEach(sq => { merged.push(sq); seen.add(sq.text); })
RECURSIVE ServerLoop(_, _, _)
ServerLoop(serverQuotes, merged, seen) ==
    IF serverQuotes = <<>> THEN [merged |-> merged, seen |-> seen]
    ELSE ServerLoop(Tail(serverQuotes),
                    Append(merged, Head(serverQuotes)),
                    seen \cup {Head(serverQuotes).text})

\* localQuotes.forEach(lq => { if (!seen.has(lq.text)) merged.push(lq); })
RECURSIVE LocalLoopNoSeenCheck(_, _, _)
LocalLoopNoSeenCheck(localQuotes, merged, seen) ==
    IF localQuotes = <<>> THEN merged
    ELSE LocalLoopNoSeenCheck(Tail(localQuotes), Append(merged, Head(localQuotes)), seen)

RECURSIVE LocalLoop(_, _, _)
LocalLoop(localQuotes, merged, seen) ==
    IF localQuotes = <<>> THEN merged
    ELSE LocalLoop(Tail(localQuotes),
                   IF Head(localQuotes).text \notin seen
                       THEN Append(merged, Head(localQuotes))
                       ELSE merged,
                   seen)

\* localQuotes.filter(lq => serverQuotes.some(sq => sq.text === lq.text))
mergeConflictsWholeQuote(serverQuotes, localQuotes) ==
    Filter(localQuotes, LAMBDA lq : Some(serverQuotes, LAMBDA sq : sq = lq))

mergeConflicts(serverQuotes, localQuotes) ==
    Filter(localQuotes, LAMBDA lq : Some(serverQuotes, LAMBDA sq : sq.text = lq.text))

mergeServerLocal(serverQuotes, localQuotes) ==
    LET afterServer == ServerLoop(serverQuotes, <<>>, {})
    IN  [merged |-> LocalLoop(localQuotes, afterServer.merged, afterServer.seen),
         conflicts |-> mergeConflicts(serverQuotes, localQuotes)]

NoArgs == [called |-> FALSE]
NoResult == [returned |-> FALSE]
MergeArgs(r, l) == [called |-> TRUE, remote |-> r, local |-> l]
MergeResult(m) == [returned |-> TRUE, merged |-> m.merged, conflicts |-> m.conflicts]

(***************************************************************************)
(* Values the environment supplies: what storage holds when the page       *)
(* opens, what the user types, the files picked for import and the         *)
(* responses of the server.                                                *)
(***************************************************************************)
A == <<"A">>
B == <<"B">>
S == <<"S">>
X == <<"X">>
Y == <<"Y">>

\* lines 12-16: the built-in collection
Seed ==
    << Quote(<<"best">>, <<"Motivation">>),
       Quote(<<"yesterday">>, <<"Inspiration">>),
       Quote(<<"success">>, <<"Wisdom">>) >>

NoItem == [has |-> FALSE]
Item(v) == [has |-> TRUE, v |-> v]

\* localStorage['quotes'] when the script starts: nothing (first visit), a
\* damaged text, or what saveQuotes wrote in an earlier session
InitStoredQuotes ==
    { Absent, NotJson,
      StringifyArray(<<>>),
      StringifyArray(<<Quote(A, X)>>) }

\* localStorage['selectedCategory'] when the script starts
InitStoredSelected == { NoItem, Item(X) }

\* what the user typed into #newQuoteText and #newQuoteCategory
FormInputs ==
    { <<<<WS, "A", WS>>, X>>,
      <<<<WS>>, X>>,
      <<A, EmptyStr>> }

\* objects handed to addQuote(newQ) by a caller
ObjectArgs == { Quote(<<WS>>, EmptyStr) }

\* texts of the files picked for import
ImportFiles ==
    { NotJson,
      JsonObject(<<<<"text", A>>, <<"category", X>>>>),
      JsonArray(<<>>),
      JsonArray(<<JsonObject(<<<<"text", A>>>>)>>),
      JsonArray(<<JsonNull, JsonObject(<<<<"text", EmptyStr>>, <<"category", X>>>>)>>),
      JsonArray(<<JsonObject(<<<<"text", A>>, <<"category", X>>>>)>>),
      JsonArray(<<JsonObject(<<<<"text", B>>, <<"category", AllStr>>, <<"author", <<"me">>>>>>),
                  JsonObject(<<<<"text", A>>>>),
                  JsonObject(<<<<"text", A>>, <<"category", ServerStr>>>>)>>) }

\* outcomes of fetch + res.json(): a failure, or the posts' titles
FetchFailed == [ok |-> FALSE]
FetchOk(titles) == [ok |-> TRUE, titles |-> titles]
FetchOutcomes ==
    { FetchFailed, FetchOk(<<>>), FetchOk(<<A>>), FetchOk(<<S, A>>) }

(***************************************************************************)
(* Storage.                                                                *)
(***************************************************************************)
\* localStorage.getItem(SELECTED_CAT_KEY) is truthy
TruthyItem(item) == item.has /\ TruthyStr(item.v)

\* JSON.parse(localStorage.getItem(QUOTES_KEY)) || fallback, for a text that parses
ParseStoredOr(stored, fallback) ==
    IF stored = Absent THEN fallback ELSE ParseArray(stored)

(***************************************************************************)
(* Notifications (the text of #notification).                              *)
(***************************************************************************)
MsgSyncing == <<"Syncing with server...">>
MsgConflicts(n) == <<"Conflicts resolved", n, "Server data prioritized.">>
MsgSynced == <<"Synced with server (no conflicts).">>
MsgSyncFailed == <<"Sync failed (see console).">>
MsgAdded == <<"Quote added locally!">>
MsgImported == <<"Quotes imported successfully!">>

(***************************************************************************)
(* Categories and the filter.                                              *)
(***************************************************************************)
\* [...new Set(values)]: distinct values in order of first occurrence
SetOrderKeepsAll(values, acc) == acc \o values

RECURSIVE SetOrder(_, _)
SetOrder(values, acc) ==
    IF values = <<>> THEN acc
    ELSE SetOrder(Tail(values),
                  IF Head(values) \in Range(acc) THEN acc ELSE Append(acc, Head(values)))

\* line 132: ['all', ...new Set(quotes.map(q => q.category))]
uniqueCategories(q) ==
    <<AllStr>> \o SetOrder([i \in DOMAIN q |-> q[i].category], <<>>)

\* lines 125-150: the options of the select and its value afterwards.  The
\* rebuilt select shows its first option unless the stored selection is one
\* of the options.
populateCategories(q, stored) ==
    LET unique == uniqueCategories(q)
    IN  [options |-> unique,
         value |-> IF TruthyItem(stored) /\ stored.v \in Range(unique)
                       THEN stored.v
                       ELSE unique[1]]

\* lines 51-54: the quotes showRandomQuote picks from
Candidates(q, stored) ==
    LET filter == IF TruthyItem(stored) THEN stored.v ELSE AllStr
    IN  IF filter = AllStr THEN q
        ELSE Filter(q, LAMBDA x : x.category = filter)

NothingShown == [kind |-> "empty"]
Placeholder == [kind |-> "placeholder"]
Shown(q) == [kind |-> "quote", quote |-> q]

\* lines 49-70: every outcome of showRandomQuote, one per value of Math.random()
showRandomQuote(q, stored) ==
    LET filtered == Candidates(q, stored)
    IN  IF Len(filtered) = 0
            THEN { [display |-> Placeholder, lastShown |-> JsonNull] }
            ELSE { [display |-> Shown(filtered[i]),
                    lastShown |-> StringifyValue(filtered[i])] : i \in DOMAIN filtered }

\* lines 165-177: the value of the select when loadLastFilter calls filterQuotes
loadLastFilterValueUnchecked(q, stored) ==
    IF TruthyItem(stored) THEN stored.v ELSE AllStr

loadLastFilterValue(q, stored) ==
    IF TruthyItem(stored)
        THEN LET pop == populateCategories(q, stored)
             IN  IF Some(pop.options, LAMBDA o : o = stored.v)
                     THEN stored.v
                     ELSE pop.value
        ELSE AllStr

(***************************************************************************)
(* The state machine.                                                      *)
(***************************************************************************)
NoOp == [op |-> "none"]

Init ==
    /\ pc = "boot"
    /\ quotes = <<>>
    /\ lsQuotes \in InitStoredQuotes
    /\ lsSelected \in InitStoredSelected
    /\ storageFull \in BOOLEAN
    /\ lastShown = Absent
    /\ display = NothingShown
    /\ options = <<>>
    /\ selectValue = EmptyStr
    /\ inflight = 0
    /\ timerOn = FALSE
    /\ lastOp = NoOp
    /\ margs = NoArgs
    /\ mres = NoResult

\* lines 12-16 and the rest of the top-level script: a stored text that does
\* not parse makes line 12 throw, and nothing after it runs
LoadScript ==
    /\ UNCHANGED storageFull
    /\ pc = "boot"
    /\ IF ParseThrows(lsQuotes)
           THEN /\ pc' = "crashed"
                /\ quotes' = quotes
           ELSE /\ pc' = "loaded"
                /\ quotes' = ParseStoredOr(lsQuotes, Seed)
    /\ lastOp' = [op |-> "load"]
    /\ UNCHANGED <<lsQuotes, lsSelected, lastShown, display, options, selectValue, inflight, timerOn, margs, mres>>

\* lines 325-334: populateCategories(); loadLastFilter(); showRandomQuote();
\* startSyncing(), which runs syncQuotes up to its first await
DOMContentLoaded ==
    /\ UNCHANGED storageFull
    /\ pc = "loaded"
    /\ LET writeOk == ~storageFull
           pop == populateCategories(quotes, lsSelected)
           value == loadLastFilterValue(quotes, lsSelected)
           \* filterQuotes: setItem(SELECTED_CAT_KEY, value), unless it throws
           selected == IF writeOk THEN Item(value) ELSE lsSelected
       IN  /\ options' = pop.options
           /\ selectValue' = value
           /\ lsSelected' = selected
           /\ \E shown \in showRandomQuote(quotes, selected) :
                /\ display' = shown.display
                /\ lastShown' = shown.lastShown
           /\ lastOp' = [op |-> "start", stored |-> lsSelected, events |-> <<MsgSyncing>>,
                         steps |-> <<"fetch">>]
    /\ pc' = "ready"
    /\ inflight' = 1
    /\ UNCHANGED <<quotes, lsQuotes, timerOn, margs, mres>>

\* the #newQuote button: showRandomQuote
NewQuoteClick ==
    /\ UNCHANGED storageFull
    /\ pc = "ready"
    /\ \E shown \in showRandomQuote(quotes, lsSelected) :
         /\ display' = shown.display
         /\ lastShown' = shown.lastShown
    /\ lastOp' = [op |-> "show"]
    /\ margs' = NoArgs
    /\ mres' = NoResult
    /\ UNCHANGED <<pc, quotes, lsQuotes, lsSelected, options, selectValue, inflight, timerOn>>

\* lines 153-162 after the user picked option `value`: filterQuotes
FilterChangePicksFirst(value) ==
    /\ UNCHANGED storageFull
    /\ pc = "ready"
    /\ value \in Range(options)
    /\ selectValue' = value
    /\ IF ~storageFull
           THEN /\ \E shown \in showRandomQuote(quotes, lsSelected) :
                     /\ display' = shown.display
                     /\ lastShown' = shown.lastShown
                /\ lsSelected' = Item(value)
           ELSE UNCHANGED <<lsSelected, display, lastShown>>
    /\ lastOp' = [op |-> "filter"]
    /\ margs' = NoArgs
    /\ mres' = NoResult
    /\ UNCHANGED <<pc, quotes, lsQuotes, options, inflight, timerOn>>

FilterChange(value) ==
    /\ UNCHANGED storageFull
    /\ pc = "ready"
    /\ value \in Range(options)
    /\ selectValue' = value
    /\ IF ~storageFull
           THEN /\ lsSelected' = Item(value)
                /\ \E shown \in showRandomQuote(quotes, Item(value)) :
                     /\ display' = shown.display
                     /\ lastShown' = shown.lastShown
           ELSE UNCHANGED <<lsSelected, display, lastShown>>
    /\ lastOp' = [op |-> "filter"]
    /\ margs' = NoArgs
    /\ mres' = NoResult
    /\ UNCHANGED <<pc, quotes, lsQuotes, options, inflight, timerOn>>

\* lines 23-25: the text saveQuotes writes under QUOTES_KEY
saveQuotes(q) == StringifyArray(q)

\* lines 97-109 of addQuote: push, save, refresh the categories, notify.
\* localStorage.setItem may throw (quota); the catch of addQuote then skips
\* the rest.
AddAndPersist(quoteObj) ==
    /\ Len(quotes) < MaxQuotes
    /\ quotes' = Append(quotes, quoteObj)
    /\ IF ~storageFull
           THEN /\ lsQuotes' = saveQuotes(quotes')
                /\ LET pop == populateCategories(quotes', lsSelected)
                   IN  /\ options' = pop.options
                       /\ selectValue' = pop.value
           ELSE UNCHANGED <<lsQuotes, options, selectValue>>

\* lines 88-93: the quote the form holds is rejected when a field is empty
\* after trimming
FormRejects(rawText, rawCategory) ==
    ~TruthyStr(trim(rawText)) \/ ~TruthyStr(trim(rawCategory))

\* lines 81-113 with no argument: the form's submit handler
AddQuoteForm(rawText, rawCategory) ==
    /\ UNCHANGED storageFull
    /\ pc = "ready"
    /\ IF FormRejects(rawText, rawCategory)
           THEN /\ UNCHANGED <<quotes, lsQuotes, options, selectValue>>
                /\ lastOp' = [op |-> "add", via |-> "form", status |-> "rejected",
                              given |-> Quote(rawText, rawCategory), pushed |-> <<>>,
                              events |-> <<>>]
           ELSE /\ AddAndPersist(Quote(trim(rawText), trim(rawCategory)))
                /\ lastOp' = [op |-> "add", via |-> "form",
                              status |-> IF ~storageFull THEN "done" ELSE "threw",
                              given |-> Quote(rawText, rawCategory),
                              pushed |-> <<Quote(trim(rawText), trim(rawCategory))>>,
                              events |-> IF ~storageFull THEN <<MsgAdded>> ELSE <<>>]
    /\ margs' = NoArgs
    /\ mres' = NoResult
    /\ UNCHANGED <<pc, lsSelected, lastShown, display, inflight, timerOn>>

\* lines 85-86: an object argument is taken as it is, without the checks of
\* the form branch
ObjectRejects(newQ) == FALSE

\* lines 81-113 with an object argument: addQuote(newQ)
AddQuoteObject(newQ) ==
    /\ UNCHANGED storageFull
    /\ pc = "ready"
    /\ IF ObjectRejects(newQ)
           THEN /\ UNCHANGED <<quotes, lsQuotes, options, selectValue>>
                /\ lastOp' = [op |-> "add", via |-> "object", status |-> "rejected",
                              given |-> newQ, pushed |-> <<>>, events |-> <<>>]
           ELSE /\ AddAndPersist(newQ)
                /\ lastOp' = [op |-> "add", via |-> "object",
                              status |-> IF ~storageFull THEN "done" ELSE "threw",
                              given |-> newQ,
                              pushed |-> <<newQ>>,
                              events |-> IF ~storageFull THEN <<MsgAdded>> ELSE <<>>]
    /\ margs' = NoArgs
    /\ mres' = NoResult
    /\ UNCHANGED <<pc, lsSelected, lastShown, display, inflight, timerOn>>

\* line 217: imported.filter(i => i && i.text && i.category)
ValidEntry(i) == i # JsNull /\ TruthyProp(i, "text") /\ TruthyProp(i, "category")

\* lines 214-218: "parse", "notArray" or "noValid" when the import throws
\* before touching the collection, "ok" otherwise
ImportVerdictLax(file) ==
    IF ParseThrows(file) THEN "parse"
    ELSE IF ~ParsesToArray(file) THEN "notArray"
    ELSE "ok"

ImportVerdict(file) ==
    IF ParseThrows(file) THEN "parse"
    ELSE IF ~ParsesToArray(file) THEN "notArray"
    ELSE IF Len(Filter(ParseArray(file), ValidEntry)) = 0 THEN "noValid"
    ELSE "ok"

\* line 219: the collection after quotes.push(...filteredImported)
ImportDedups(q, file) ==
    q \o Filter(Filter(ParseArray(file), ValidEntry),
                LAMBDA i : ~Some(q, LAMBDA x : x.text = i.text))

ImportPush(q, file) == q \o Filter(ParseArray(file), ValidEntry)

\* lines 212-227: reader.onload of importFromJsonFile
ImportFile(file) ==
    /\ UNCHANGED storageFull
    /\ pc = "ready"
    /\ LET verdict == ImportVerdict(file)
       IN  IF verdict # "ok"
               THEN /\ UNCHANGED <<quotes, lsQuotes, options, selectValue>>
                    /\ lastOp' = [op |-> "import", status |-> "failed", file |-> file,
                                  pushed |-> <<>>, events |-> <<>>]
               ELSE /\ Len(ImportPush(quotes, file)) <= MaxQuotes
                    /\ quotes' = ImportPush(quotes, file)
                    /\ IF ~storageFull
                           THEN /\ lsQuotes' = saveQuotes(quotes')
                                /\ LET pop == populateCategories(quotes', lsSelected)
                                   IN  /\ options' = pop.options
                                       /\ selectValue' = pop.value
                           ELSE UNCHANGED <<lsQuotes, options, selectValue>>
                    /\ lastOp' = [op |-> "import",
                                  status |-> IF ~storageFull THEN "done" ELSE "threw",
                                  file |-> file,
                                  pushed |-> Filter(ParseArray(file), ValidEntry),
                                  events |-> IF ~storageFull THEN <<MsgImported>> ELSE <<>>]
    /\ margs' = NoArgs
    /\ mres' = NoResult
    /\ UNCHANGED <<pc, lsSelected, lastShown, display, inflight, timerOn>>

\* lines 240-250: what fetchQuotesFromServer resolves to
fetchQuotesFromServer(outcome) ==
    IF outcome.ok
        THEN [i \in DOMAIN outcome.titles |-> Quote(outcome.titles[i], ServerStr)]
        ELSE <<>>

\* line 297: the `local` side of the merge
LocalFromStorage(stored, q) == ParseStoredOr(stored, <<>>)

\* lines 301-306: the status shown before the merged collection is stored
ConflictStatus(conflicts) ==
    IF Len(conflicts) > 0 THEN MsgConflicts(Len(conflicts)) ELSE MsgSynced

\* lines 296-314 in the order they run, given whether JSON.parse of the stored
\* text throws and whether saveQuotes throws; a failed fetch has become an
\* empty list inside fetchQuotesFromServer and takes the same path
SyncStepsUncaught(parseThrows, saveThrows) ==
    IF parseThrows THEN <<"fetched", "read-threw">>
    ELSE IF saveThrows
        THEN <<"fetched", "read", "merge", "status", "assign", "save-threw">>
    ELSE <<"fetched", "read", "merge", "status", "assign", "save", "categories">>

SyncSteps(parseThrows, saveThrows) ==
    IF parseThrows THEN <<"fetched", "read-threw", "status-failed">>
    ELSE IF saveThrows
        THEN <<"fetched", "read", "merge", "status", "assign", "save-threw", "status-failed">>
    ELSE <<"fetched", "read", "merge", "status", "assign", "save", "categories">>

\* lines 293-294 run by the interval timer: syncQuotes up to its await
TimerTick ==
    /\ UNCHANGED storageFull
    /\ pc = "ready"
    /\ timerOn
    /\ inflight < MaxInflight
    /\ inflight' = inflight + 1
    /\ lastOp' = [op |-> "tick", events |-> <<MsgSyncing>>, steps |-> <<"fetch">>]
    /\ margs' = NoArgs
    /\ mres' = NoResult
    /\ UNCHANGED <<pc, quotes, lsQuotes, lsSelected, lastShown, display, options,
                   selectValue, timerOn>>

\* lines 296-314: syncQuotes from the moment its fetch settles to its end;
\* when the cycle is the one startSyncing awaits, line 321 installs the timer
SyncResume(outcome) ==
    /\ UNCHANGED storageFull
    /\ pc = "ready"
    /\ inflight > 0
    /\ inflight' = inflight - 1
    /\ timerOn' = TRUE
    /\ LET serverData == fetchQuotesFromServer(outcome)
       IN  IF ParseThrows(lsQuotes)
               THEN \* JSON.parse throws: straight to the catch
                    /\ lastOp' = [op |-> "sync", fetchOk |-> outcome.ok,
                                  status |-> "threw", events |-> <<MsgSyncFailed>>,
                                  steps |-> SyncSteps(TRUE, storageFull)]
                    /\ margs' = NoArgs
                    /\ mres' = NoResult
                    /\ UNCHANGED <<quotes, lsQuotes, options, selectValue>>
               ELSE LET local == LocalFromStorage(lsQuotes, quotes)
                        result == mergeServerLocal(serverData, local)
                        status == ConflictStatus(result.conflicts)
                        events == IF ~storageFull THEN <<status>> ELSE <<status, MsgSyncFailed>>
                    IN  /\ Len(result.merged) <= MaxQuotes
                        /\ margs' = MergeArgs(serverData, local)
                        /\ mres' = MergeResult(result)
                        /\ quotes' = result.merged
                        /\ IF ~storageFull
                               THEN /\ lsQuotes' = saveQuotes(quotes')
                                    /\ LET pop == populateCategories(quotes', lsSelected)
                                       IN  /\ options' = pop.options
                                           /\ selectValue' = pop.value
                               ELSE UNCHANGED <<lsQuotes, options, selectValue>>
                        /\ lastOp' = [op |-> "sync", fetchOk |-> outcome.ok,
                                      status |-> IF ~storageFull THEN "done" ELSE "threw",
                                      events |-> events,
                                      steps |-> SyncSteps(FALSE, storageFull)]
    /\ UNCHANGED <<pc, lsSelected, lastShown, display>>

Next ==
    \/ LoadScript
    \/ DOMContentLoaded
    \/ NewQuoteClick
    \/ \E value \in Range(options) : FilterChange(value)
    \/ \E input \in FormInputs : AddQuoteForm(input[1], input[2])
    \/ \E newQ \in ObjectArgs : AddQuoteObject(newQ)
    \/ \E file \in ImportFiles : ImportFile(file)
    \/ TimerTick
    \/ \E outcome \in FetchOutcomes : SyncResume(outcome)

Spec == Init /\ [][Next]_vars

\* The life of the sync cycles: the handlers that start or end a cycle or
\* change the collection (the handlers that only redraw the display are left
\* out), with the request of every cycle in flight settling: fetch resolves
\* or rejects (a browser ends a request that gets no answer).
NextSync ==
    \/ LoadScript
    \/ DOMContentLoaded
    \/ \E input \in FormInputs : AddQuoteForm(input[1], input[2])
    \/ \E newQ \in ObjectArgs : AddQuoteObject(newQ)
    \/ \E file \in ImportFiles : ImportFile(file)
    \/ TimerTick
    \/ \E outcome \in FetchOutcomes : SyncResume(outcome)

FairSpec ==
    /\ Init
    /\ [][NextSync]_vars
    /\ WF_vars(\E outcome \in FetchOutcomes : SyncResume(outcome))

(***************************************************************************)
(* mergeServerLocal on its own: every pair of arguments up to MaxMergeLen  *)
(* items, one call, then a second call on the result of the first.         *)
(***************************************************************************)
MergeItems == { Quote(A, X), Quote(B, Y), Quote(A, ServerStr), Quote(B, ServerStr) }

InitMerge ==
    /\ pc = "unit"
    /\ quotes = <<>>
    /\ lsQuotes = Absent
    /\ lsSelected = NoItem
    /\ storageFull = FALSE
    /\ lastShown = Absent
    /\ display = NothingShown
    /\ options = <<>>
    /\ selectValue = EmptyStr
    /\ inflight = 0
    /\ timerOn = FALSE
    /\ lastOp = NoOp
    /\ margs \in { MergeArgs(r, l) : r \in SeqsUpTo(MergeItems, MaxMergeLen),
                                     l \in SeqsUpTo(MergeItems, MaxMergeLen) }
    /\ mres = NoResult

CallMerge ==
    /\ pc = "unit"
    /\ ~mres.returned
    /\ mres' = MergeResult(mergeServerLocal(margs.remote, margs.local))
    /\ UNCHANGED <<pc, quotes, lsQuotes, lsSelected, storageFull, lastShown, display,
                   options, selectValue, inflight, timerOn, lastOp, margs>>

\* the next cycle with the same remote snapshot and no local change in
\* between: mergeServerLocal(remote, merged of the call before)
CallMergeAgain ==
    /\ pc = "unit"
    /\ mres.returned
    /\ lastOp = NoOp
    /\ margs' = MergeArgs(margs.remote, mres.merged)
    /\ mres' = MergeResult(mergeServerLocal(margs.remote, mres.merged))
    /\ lastOp' = [op |-> "again", before |-> mres]
    /\ UNCHANGED <<pc, quotes, lsQuotes, lsSelected, storageFull, lastShown, display,
                   options, selectValue, inflight, timerOn>>

NextMerge == CallMerge \/ CallMergeAgain

SpecMerge == InitMerge /\ [][NextMerge]_vars

(***************************************************************************)
(* Properties.                                                             *)
(***************************************************************************)
\* positions of `l` whose text is the text of some item of `r`
Colliding(r, l) == { i \in DOMAIN l : \E j \in DOMAIN r : r[j].text = l[i].text }

\* how many positions of the set `keep` are at or before position i
RankIn(keep, i) == Cardinality({ k \in keep : k <= i })

\* the sequence `out` is `l` restricted to the positions in `keep`, in order
IsRestriction(out, l, keep) ==
    /\ Len(out) = Cardinality(keep)
    /\ \A i \in keep : out[RankIn(keep, i)] = l[i]

\* C1: merged is the remote sequence, in remote order, followed by the local
\* items whose text is the text of no remote item, in local order; so every
\* element of merged is a remote item or a local item whose text is not remote.
C1_MergedIsRemoteThenUnmatchedLocal ==
    mres.returned =>
        LET R == margs.remote
            L == margs.local
            M == mres.merged
            kept == DOMAIN L \ Colliding(R, L)
        IN  /\ Len(M) = Len(R) + Cardinality(kept)
            /\ \A j \in DOMAIN R : M[j] = R[j]
            /\ \A i \in kept : M[Len(R) + RankIn(kept, i)] = L[i]
            /\ \A k \in DOMAIN M :
                 \/ k <= Len(R) /\ M[k] = R[k]
                 \/ \E i \in DOMAIN L :
                      /\ M[k] = L[i]
                      /\ \A j \in DOMAIN R : R[j].text # L[i].text

\* the scenario local = [A/X, B/Y], remote = [B/Server]
C1_Witness ==
    /\ mres.returned
    /\ margs.local = <<Quote(A, X), Quote(B, Y)>>
    /\ margs.remote = <<Quote(B, ServerStr)>>
    /\ mres.merged = <<Quote(B, ServerStr), Quote(A, X)>>

\* C2: conflicts is the local sequence restricted to the items whose text is
\* the text of some remote item (local order, with multiplicity), and the
\* part of merged after the remote items is the local sequence restricted to
\* all the other items: each local item is in exactly one of the two.
C2_ConflictsAreCollidingLocals ==
    mres.returned =>
        LET R == margs.remote
            L == margs.local
            tail == SubSeq(mres.merged, Len(R) + 1, Len(mres.merged))
        IN  /\ IsRestriction(mres.conflicts, L, Colliding(R, L))
            /\ IsRestriction(tail, L, DOMAIN L \ Colliding(R, L))
            /\ Len(mres.conflicts) + Len(tail) = Len(L)

\* a local item whose text the server sent, beside one it did not send
C2_Witness ==
    /\ mres.returned
    /\ margs.remote = <<Quote(B, ServerStr)>>
    /\ margs.local = <<Quote(B, Y), Quote(A, X)>>
    /\ mres.conflicts = <<Quote(B, Y)>>
    /\ mres.merged = <<Quote(B, ServerStr), Quote(A, X)>>

\* the stored text of the collection stands for exactly the collection `q`
DeserializesTo(stored, q) == ParsesToArray(stored) /\ ParseArray(stored) = q

\* C3: a sync cycle whose fetch failed leaves the in-memory collection as it
\* was, also in the first cycle after a startup that found nothing stored
\* (taken with a storage that accepts writes).
C3_FailedFetchIsNoOp ==
    [][(lastOp'.op = "sync" /\ ~lastOp'.fetchOk /\ ~storageFull)
           => quotes' = quotes]_vars

\* C4: a sync cycle that throws emits the failure status and leaves both the
\* in-memory collection and the stored collection as they were (taken for a
\* cycle that starts with the two in agreement).
C4_FailedCycleChangesNothing ==
    [][(lastOp'.op = "sync" /\ lastOp'.status = "threw"
            /\ DeserializesTo(lsQuotes, quotes))
           => /\ MsgSyncFailed \in Range(lastOp'.events)
              /\ quotes' = quotes
              /\ lsQuotes' = lsQuotes]_vars

\* C5: between handlers, after any add, import or sync, the stored text
\* deserializes to exactly the in-memory collection (taken with a storage
\* that accepts writes).
C5_StoredMirrorsMemory ==
    (pc = "ready" /\ ~storageFull /\ lastOp.op \in {"add", "import", "sync"})
        => DeserializesTo(lsQuotes, quotes)

\* the quote handed to addQuote has an empty text or category after trimming
EmptyAfterTrim(q) == trim(q.text) = EmptyStr \/ trim(q.category) = EmptyStr

\* C6: an add whose quote, from the form or as an object, has an empty text or
\* category after trimming changes neither the in-memory nor the stored
\* collection.
C6_EmptyQuoteIsRejected ==
    [][(lastOp'.op = "add" /\ EmptyAfterTrim(lastOp'.given))
           => (quotes' = quotes /\ lsQuotes' = lsQuotes)]_vars

\* an element of a JSON array that is an object with truthy text and category
JsonHasTruthy(item, key) ==
    item.kind = "object"
    /\ \E n \in DOMAIN item.pairs : item.pairs[n][1] = key /\ item.pairs[n][2] # <<>>

UsableEntry(item) == JsonHasTruthy(item, "text") /\ JsonHasTruthy(item, "category")

\* the file is no JSON, is no array, or holds no usable entry
Unimportable(file) ==
    \/ file.kind = "garbage"
    \/ file.kind # "array"
    \/ \A n \in DOMAIN file.items : ~UsableEntry(file.items[n])

\* C7: an import of a file that is no JSON, no array, or an array without an
\* entry that has both text and category fails and changes neither the
\* in-memory nor the stored collection.
C7_BadImportChangesNothing ==
    [][(lastOp'.op = "import" /\ Unimportable(lastOp'.file))
           => /\ lastOp'.status = "failed"
              /\ quotes' = quotes
              /\ lsQuotes' = lsQuotes]_vars

\* the import of '[{"text":"A"}]' into a collection that holds quotes, failed
C7_Witness ==
    /\ lastOp.op = "import"
    /\ lastOp.file = JsonArray(<<JsonObject(<<<<"text", A>>>>)>>)
    /\ lastOp.status = "failed"
    /\ Len(quotes) > 0
    /\ DeserializesTo(lsQuotes, quotes)

\* the object `o` has exactly the properties of the JSON object `item`
SameAsJson(o, item) ==
    /\ DOMAIN o = { item.pairs[n][1] : n \in DOMAIN item.pairs }
    /\ \A n \in DOMAIN item.pairs : o[item.pairs[n][1]] = item.pairs[n][2]

\* C8: after a successful import the collection is the collection before it,
\* followed by the entries of the file that have text and category, in file
\* order, each with exactly the properties it has in the file, whether or not
\* the collection already holds a quote of the same text.
C8_ImportAppends ==
    [][(lastOp'.op = "import" /\ lastOp'.status = "done")
           => LET items == lastOp'.file.items
                  usable == { n \in DOMAIN items : UsableEntry(items[n]) }
              IN  /\ Len(quotes') = Len(quotes) + Cardinality(usable)
                  /\ \A i \in DOMAIN quotes : quotes'[i] = quotes[i]
                  /\ \A n \in usable :
                       SameAsJson(quotes'[Len(quotes) + RankIn(usable, n)], items[n])]_vars

\* the three-entry file imported into [A/X]: two entries appended, the one
\* without category skipped, text A now twice in the collection
C8_Witness ==
    /\ lastOp.op = "import"
    /\ lastOp.status = "done"
    /\ Len(lastOp.file.items) = 3
    /\ quotes = << Quote(A, X),
                   [text |-> B, category |-> AllStr, author |-> <<"me">>],
                   Quote(A, ServerStr) >>

\* the handler that ran last called showRandomQuote, and nothing ran since
ShowRan ==
    \/ lastOp.op \in {"show", "start"}
    \/ lastOp.op = "filter" /\ ~storageFull

\* the stored text `j` is the JSON of the object `o`
IsJsonOf(j, o) == j.kind = "object" /\ SameAsJson(o, j)

\* C9: showRandomQuote shows, and records as last shown, a quote of the
\* collection whose category is the stored filter f when f is not 'all', any
\* quote of the collection when f is 'all' or absent, and the placeholder
\* (recording null) exactly when there is no such quote.
C9_ShowsOnlyCandidates ==
    ShowRan =>
        LET f == lsSelected
            cand == { i \in DOMAIN quotes :
                        \/ ~f.has
                        \/ f.v = AllStr
                        \/ quotes[i].category = f.v }
        IN  IF cand = {}
                THEN display = Placeholder /\ lastShown = JsonNull
                ELSE \E i \in cand :
                       /\ display = Shown(quotes[i])
                       /\ IsJsonOf(lastShown, quotes[i])

\* the stored selection names a category no quote of the collection has
Stale(stored, q) ==
    /\ stored.has
    /\ stored.v \notin {EmptyStr, AllStr}
    /\ \A i \in DOMAIN q : q[i].category # stored.v

PushedInFlight == lastOp.op \in {"add", "import"} /\ lastOp.pushed # <<>> /\ inflight > 0

\* C11: a quote added or imported while a cycle waits for its fetch is on the
\* local side of that cycle's merge, and is in the collection after the cycle
\* unless its text is the text of a remote item of the cycle.
C11_InterleavedAddsReachTheMerge ==
    [][(PushedInFlight /\ lastOp'.op = "sync")
           => \A i \in DOMAIN lastOp.pushed :
                /\ margs'.called
                /\ lastOp.pushed[i] \in Range(margs'.local)
                /\ \/ lastOp.pushed[i] \in Range(quotes')
                   \/ \E j \in DOMAIN margs'.remote :
                        margs'.remote[j].text = lastOp.pushed[i].text]_vars

\* position of the step `name` in the steps of a cycle, 0 when it did not run
StepAt(steps, name) ==
    IF \E i \in DOMAIN steps : steps[i] = name
        THEN CHOOSE i \in DOMAIN steps : steps[i] = name
        ELSE 0

\* C12: in every sync cycle the success or conflict status is emitted after
\* the merged collection was persisted and the categories recomputed, and no
\* cycle emits a success or conflict status and then the failure status.
C12_StatusFollowsPersist ==
    [][(lastOp'.op = "sync")
           => LET steps == lastOp'.steps
              IN  /\ StepAt(steps, "status") > 0
                       => /\ StepAt(steps, "merge") < StepAt(steps, "save")
                          /\ StepAt(steps, "save") > 0
                          /\ StepAt(steps, "save") < StepAt(steps, "categories")
                          /\ StepAt(steps, "categories") < StepAt(steps, "status")
                  /\ ~(\E i, j \in DOMAIN lastOp'.events :
                          /\ i < j
                          /\ lastOp'.events[i] # MsgSyncFailed
                          /\ lastOp'.events[j] = MsgSyncFailed)]_vars

\* the phase of the cycle in which a step of syncQuotes runs
PhaseOf(step) ==
    CASE step \in {"fetch", "fetched"} -> "Fetching"
      [] step \in {"read", "read-threw", "merge", "status"} -> "Merging"
      [] step \in {"assign", "save", "save-threw", "categories"} -> "Persisting"
      [] step = "status-failed" -> "Failed"

\* the phases a cycle goes through in one task: from Idle when the task starts
\* the cycle, to Idle when the task ends it
PhasePath(op) ==
    LET phases == [i \in DOMAIN op.steps |-> PhaseOf(op.steps[i])]
    IN  IF op.op = "sync" THEN phases \o <<"Idle">> ELSE <<"Idle">> \o phases

Moves(path) ==
    { <<path[i], path[i + 1]>> : i \in { k \in 1..(Len(path) - 1) : path[k] # path[k + 1] } }

ClaimedMoves ==
    { <<"Idle", "Fetching">>, <<"Fetching", "Merging">>, <<"Merging", "Persisting">>,
      <<"Persisting", "Idle">>, <<"Fetching", "Failed">>, <<"Merging", "Failed">>,
      <<"Failed", "Idle">> }

ActualMoves ==
    { <<"Idle", "Fetching">>, <<"Fetching", "Merging">>, <<"Merging", "Persisting">>,
      <<"Persisting", "Idle">>, <<"Merging", "Failed">>, <<"Persisting", "Failed">>,
      <<"Failed", "Idle">> }

\* a task of a cycle moves only along `moves`; a cycle that throws goes through
\* Failed, shows the failure status last and still ends in Idle with the page
\* alive (nothing escapes syncQuotes)
CycleFollows(moves) ==
    (lastOp'.op \in {"start", "tick", "sync"})
           => LET path == PhasePath(lastOp')
              IN  /\ Moves(path) \subseteq moves
                  /\ lastOp'.op = "sync"
                       => /\ pc' = "ready"
                          /\ inflight' = inflight - 1
                          /\ path[Len(path)] = "Idle"
                          /\ ("Failed" \in Range(path)) = (lastOp'.status = "threw")
                          /\ lastOp'.status = "threw"
                               => /\ path[Len(path) - 1] = "Failed"
                                  /\ lastOp'.events[Len(lastOp'.events)] = MsgSyncFailed

\* no cycle stays in flight for ever: again and again no cycle is in flight or
\* a cycle has just completed
CyclesComplete == []<>(inflight = 0 \/ lastOp.op = "sync")

\* C13 as claimed: a cycle follows Idle -> Fetching -> Merging -> Persisting ->
\* Idle, with Failed entered from Fetching or Merging only and left to Idle
\* after the failure status; every started cycle returns to Idle and nothing
\* escapes syncQuotes.
C13_FailedFromFetchingOrMerging == [][CycleFollows(ClaimedMoves)]_vars /\ CyclesComplete

\* C13 as amended: a cycle follows Idle -> Fetching -> Merging -> Persisting ->
\* Idle; a failed fetch does not lead to Failed (the cycle goes on to Merging
\* with an empty remote list); Failed is entered from Merging (reading the
\* stored collection throws) or from Persisting (the write throws) and left to
\* Idle after the failure status; every started cycle returns to Idle when its
\* request settles, and nothing escapes syncQuotes.
C13_FailedFromMergingOrPersisting ==
    /\ [][CycleFollows(ActualMoves)]_vars
    /\ [][(lastOp'.op = "sync" /\ ~lastOp'.fetchOk /\ lastOp'.status = "done")
              => "Failed" \notin Range(PhasePath(lastOp'))]_vars
    /\ CyclesComplete

\* a cycle whose fetch resolved failed while persisting: the failure status is
\* shown, the page is alive and no cycle is in flight
C13_Witness ==
    /\ lastOp.op = "sync"
    /\ lastOp.fetchOk
    /\ lastOp.status = "threw"
    /\ "save-threw" \in Range(lastOp.steps)
    /\ lastOp.events[Len(lastOp.events)] = MsgSyncFailed
    /\ pc = "ready"
    /\ inflight = 0

\* C14: startup starts one cycle at once, and from startup on the interval
\* timer is installed, so that every period tick starts a cycle whether or not
\* an earlier cycle has finished; the timer is never removed.
C14_TimerRunsFromStartup ==
    /\ [][(lastOp'.op = "start") => (inflight' = 1)]_vars
    /\ [](pc = "ready" => timerOn)
    /\ [][timerOn => timerOn']_vars

\* C15: whatever text is stored under 'quotes', loading raises nothing and
\* the page goes on to its start; when the text is absent or is no JSON the
\* collection is the built-in seed.
C15_LoadIsFailSoft ==
    [][(lastOp'.op = "load")
           => /\ pc' = "loaded"
              /\ (lsQuotes.kind \in {"absent", "garbage"}) => (quotes' = Seed)]_vars

\* the handler that ran last rebuilt the options of the select from the
\* collection as it is now
PopulateRan ==
    \/ lastOp.op = "start"
    \/ lastOp.op \in {"add", "import", "sync"} /\ lastOp.status = "done"

\* first position of the collection `q` whose category is `c`
FirstWith(q, c) ==
    CHOOSE i \in DOMAIN q : q[i].category = c /\ \A k \in 1..(i - 1) : q[k].category # c

\* C16: the category list built from a collection is 'all' followed by the
\* distinct category values of the collection, each once, in the order of
\* their first occurrence in the collection.
C16_CategoriesInFirstOccurrenceOrder ==
    PopulateRan =>
        LET rest == SubSeq(options, 2, Len(options))
        IN  /\ Len(options) >= 1
            /\ options[1] = AllStr
            /\ Range(rest) = { quotes[i].category : i \in DOMAIN quotes }
            /\ \A i, j \in DOMAIN rest : i # j => rest[i] # rest[j]
            /\ \A i, j \in DOMAIN rest :
                 i < j => FirstWith(quotes, rest[i]) < FirstWith(quotes, rest[j])

\* the collection [A/X, B/all, A/Server]: the list is all, X, all, Server
C16_Witness ==
    /\ PopulateRan
    /\ Len(quotes) = 3
    /\ quotes[1].category = X /\ quotes[2].category = AllStr /\ quotes[3].category = ServerStr
    /\ options = <<AllStr, X, AllStr, ServerStr>>

\* C17: merging the same remote snapshot R into the result of merging R into
\* L gives that result again: merge(R, merge(R, L).merged).merged =
\* merge(R, L).merged.
C17_SecondMergeChangesNothing ==
    (lastOp.op = "again") =>
        /\ mres.returned
        /\ margs.local = lastOp.before.merged
        /\ mres.merged = lastOp.before.merged

\* R = [B/Server], L = [B/Y, A/X]: both merges give [B/Server, A/X]
C17_Witness ==
    /\ lastOp.op = "again"
    /\ margs.remote = <<Quote(B, ServerStr)>>
    /\ lastOp.before.conflicts = <<Quote(B, Y)>>
    /\ lastOp.before.merged = <<Quote(B, ServerStr), Quote(A, X)>>
    /\ mres.merged = <<Quote(B, ServerStr), Quote(A, X)>>

\* C18: a filter change writes the value chosen in the select to
\* 'selectedCategory' and picks the next quote under that value (when the
\* write throws, nothing is picked by the handler); an add, an import and
\* either half of a sync cycle leave 'selectedCategory' as it was.
C18_SelectionPersistedOnItsOwn ==
    /\ [][(lastOp'.op = "filter")
              => IF storageFull
                     THEN lsSelected' = lsSelected /\ display' = display /\ lastShown' = lastShown
                     ELSE /\ lsSelected' = Item(selectValue')
                          /\ display'.kind = "quote"
                               => \/ selectValue' \in {AllStr, EmptyStr}
                                  \/ display'.quote.category = selectValue'
                          /\ display'.kind = "placeholder"
                               => \A i \in DOMAIN quotes : quotes[i].category # selectValue']_vars
    /\ [][(lastOp'.op \in {"add", "import", "tick", "sync"}) => lsSelected' = lsSelected]_vars

\* with X selected and stored, the user picked Server and a Server quote is
\* shown; an import then left the stored selection alone
C18_Witness ==
    /\ lastOp.op = "import"
    /\ lastOp.status = "done"
    /\ lsSelected = Item(ServerStr)
    /\ display.kind = "quote"
    /\ display.quote.category = ServerStr
    /\ \E i \in DOMAIN quotes : quotes[i].category = X

\* C19: a completed cycle that leaves the collection as it was discarded no
\* local version: its conflicts list is empty and it emits the plain success
\* status, not the conflict status.
C19_NoConflictWithoutDiscard ==
    [][(lastOp'.op = "sync" /\ lastOp'.status = "done" /\ quotes' = quotes)
           => /\ mres'.conflicts = <<>>
              /\ lastOp'.events = <<MsgSynced>>]_vars

\* C20: the part of a cycle after its fetch runs without interleaving, on the
\* collection as the handlers before it left it: the local side of its merge
\* is the current collection (never an older snapshot), and the collection
\* after the cycle is the merge of the fetched list into the collection
\* before it, whatever ran while the fetch was pending.
C20_CyclesApplyInOrder ==
    [][(lastOp'.op = "sync")
           => /\ margs'.called
              /\ margs'.local = quotes
              /\ quotes' = mergeServerLocal(margs'.remote, quotes).merged]_vars

\* no two items of the sequence `q` have the same text
DistinctTexts(q) == \A i, j \in DOMAIN q : i # j => q[i].text # q[j].text

\* C21: when the remote items have pairwise distinct texts and the local items
\* have pairwise distinct texts, the merged items have pairwise distinct
\* texts; so two merged items of the same text come from two remote items or
\* two local items of that text.
C21_MergeKeepsTextsDistinct ==
    mres.returned =>
        /\ (DistinctTexts(margs.remote) /\ DistinctTexts(margs.local))
               => DistinctTexts(mres.merged)
        /\ \A i, j \in DOMAIN mres.merged :
             (i < j /\ mres.merged[i].text = mres.merged[j].text)
                 => \/ j <= Len(margs.remote)
                    \/ /\ i > Len(margs.remote)
                       /\ ~DistinctTexts(margs.local)

\* R = [A/Server], L = [A/X, B/Y], both without repeated text: merged is
\* [A/Server, B/Y], the colliding local A/X dropped
C21_Witness ==
    /\ mres.returned
    /\ margs.remote = <<Quote(A, ServerStr)>>
    /\ margs.local = <<Quote(A, X), Quote(B, Y)>>
    /\ mres.merged = <<Quote(A, ServerStr), Quote(B, Y)>>
    /\ DistinctTexts(mres.merged)

\* C22: the category list built by populateCategories holds no value twice,
\* also when a quote of the collection has the category 'all'.
C22_OptionsHoldNoValueTwice ==
    \A i, j \in DOMAIN options : i # j => options[i] # options[j]

====
